---- MODULE Spec2Model ----
(***************************************************************************)
(* Session / message lifecycle of the two-party ephemeral chat             *)
(* (create-chat-form.tsx, join-challenge.tsx, chat-interface.tsx) over a   *)
(* shared Firestore store: one session document and its message log.       *)
(***************************************************************************)
EXTENDS Integers, Sequences, FiniteSets, Bags, TLC

(* ------------------------------ bounds --------------------------------- *)
\* last instant of the server clock
MaxTime == 2
\* number of join/leave system messages written in a run
MaxNotices == 3
\* attempts runTransaction makes before it gives up on write conflicts
MaxAttempts == 2
\* number of session creations (setDoc) in a run
MaxCreates == 1
\* number of join-page loads in a run
MaxVisits == 3
\* number of direct navigations (open /chat/{id}, go back home) in a run
MaxNavs == 1
\* number of text/image sends in a run
MaxSends == 3
\* number of presses of the leave button in a run
MaxLeaves == 2
\* number of clients whose join page is loading or joining at the same time
MaxJoining == 2
\* last instant of the clock in the runs that wait for destruction timers
MaxClock == 7
\* number of deleteDoc calls the store rejects in a run
MaxRejects == 1

(* ----------------------------- constants ------------------------------- *)
Clients == {"c1", "c2", "c3"}
\* the client that opens /create (ids are interchangeable)
Creator == "c1"
\* useState('') : the userId state before the load effect has set it
EmptyId == ""
SystemId == "system"
\* fetchSession runs once per render of the load effect: the first run closes
\* over the handleJoin of the first render (userId = ''), the second over the
\* handleJoin of the render that follows setUserId
Runs == {"first", "second"}
SendSlots == {1, 2}
JoinedText == "has joined the chat."
LeftText == "has left the chat."
ScreenshotText == "A screenshot may have been taken."
\* seenAt: null
Null == 0
\* radio values of the challenge form (optIndex.toString())
Options == {"0", "1"}
\* values the creator may submit: the questions (correctAnswerIndex of each),
\* the kick switch (read only when there are questions) and the slider value
FormValues ==
    {[questions |-> <<>>, kickOnWrongAnswer |-> TRUE, selfDestructSeconds |-> 5],
     [questions |-> <<"0", "1">>, kickOnWrongAnswer |-> TRUE, selfDestructSeconds |-> 5],
     [questions |-> <<"0", "1">>, kickOnWrongAnswer |-> FALSE, selfDestructSeconds |-> 5]}

VARIABLES
    now,          \* server clock (serverTimestamp)
    session,      \* the session document sessions/{sessionId}
    messages,     \* the collection sessions/{sessionId}/messages, by createdAt
    nextId,       \* next store-assigned message id
    page,         \* per client: route currently mounted
    hasId,        \* per client: sessionStorage holds secretchat-userId-{sessionId}
    fetch,        \* per client, per run: fetchSession pending or not
    form,         \* per client: JoinChallenge state session/error/showKickDialog
    jt,           \* per client, per run: handleJoin invocation (transaction)
    lt,           \* per client: handleLeaveChat invocation (transaction)
    sessionData,  \* per client: ChatInterface state sessionData
    presQ,        \* per client: presence updateDoc calls not yet applied
    st,           \* per client, per slot: handleSendMessage / handleSendImage
    budget,       \* operations started so far (bounds the run)
    msgView,      \* per client: ChatInterface state messages (last snapshot)
    fresh,        \* per client: the first snapshot of a new listener is due
    destructionTimers, \* per client: the map message id -> scheduled timeout
    timeouts,     \* per client: the timeouts set and neither fired nor cleared
    viewOnce      \* the view-once ChatInterface: its state messages, imageToView
                  \* and settings, and its timeouts set and not yet fired

\* the state of the message subscription effect
sched == <<msgView, fresh, destructionTimers, timeouts>>

vars == <<now, session, messages, nextId, page, hasId, viewOnce, fetch, form,
          jt, lt, sessionData, presQ, st, budget, sched>>

\* the view-once ChatInterface is not rendered
NotMounted == [mounted |-> FALSE]

(* --------------------------- document helpers -------------------------- *)
\* a document that does not exist: doc.exists() is false
NoDoc == [exists |-> FALSE]

Has(d, k) == k \in DOMAIN d

\* field write of setDoc/update: creates the field when it is missing
Put(d, k, v) == [x \in (DOMAIN d) \cup {k} |-> IF x = k THEN v ELSE d[x]]

\* data.participants || []
ParticipantsOf(d) == IF Has(d, "participants") THEN d.participants ELSE <<>>

\* data.presence || {}
PresenceOf(d) == IF Has(d, "presence") THEN d.presence ELSE <<>>

Range(s) == {s[i] : i \in 1..Len(s)}

\* participants.includes(userId)
Includes(s, u) == u \in Range(s)

\* mutant: the filter keeps every entry
FilterKeepsAll(s, u) == s

\* currentParticipants.filter(p => p !== userId)
Filter(s, u) == SelectSeq(s, LAMBDA p : p # u)

\* delete newPresence[userId]
DeleteSlot(p, u) == [x \in (DOMAIN p) \ {u} |-> p[x]]

\* userId.substring(0, 12): ids are `user_${Date.now()}_${random}`, so the
\* first 12 characters are "user_" and the leading 7 digits of the clock;
\* ids generated within the same 1000 s share them
Substring12(u) ==
    CASE u = EmptyId -> ""
      [] u \in {"c1", "c2"} -> "user_1730000"
      [] OTHER -> "user_1730001"

(* ------------------------------ records -------------------------------- *)
\* JoinChallenge component state after mount: session = null, error = null,
\* showKickDialog = false; alerted records the alert() of a wrong answer
FormInit == [loaded |-> FALSE, questions |-> <<>>, kickOnWrongAnswer |-> FALSE,
             error |-> "", showKickDialog |-> FALSE, alerted |-> FALSE]

\* one invocation of handleJoin: position in the transaction, attempts made,
\* whether a concurrent write hit the session document since it was read,
\* the buffered transaction.update, the addDoc calls made, the outcome
JoinIdle == [pc |-> "idle", attempts |-> 0, conflict |-> FALSE, write |-> FALSE,
             list |-> <<>>, msgs |-> 0, outcome |-> "none"]

\* one invocation of handleLeaveChat
LeaveIdle == [pc |-> "idle", attempts |-> 0, conflict |-> FALSE, list |-> <<>>,
              pres |-> <<>>, msg |-> FALSE, outcome |-> "none"]

\* one invocation of handleSendMessage / handleSendImage
SendIdle == [pc |-> "idle", type |-> "text", other |-> EmptyId, batch |-> {}]

\* the userId a handleJoin closure sees: '' in the closure of the first render
Uid(c, r) == IF r = "first" THEN EmptyId ELSE c

SystemMessage(id, text, who, t) ==
    [id |-> id, senderId |-> SystemId, type |-> "system",
     text |-> <<Substring12(who), text>>, createdAt |-> t, seenAt |-> Null]

UserMessage(id, u, type, t) ==
    [id |-> id, senderId |-> u, type |-> type, text |-> <<>>,
     createdAt |-> t, seenAt |-> Null]

(* ------------------- store: optimistic transactions -------------------- *)
\* a write to the session document invalidates every transaction that has
\* read it and not yet committed (the commit's version precondition fails)
Conflict(t) == IF t.pc = "commit" THEN [t EXCEPT !.conflict = TRUE] ELSE t

JtConflicts == [c \in Clients |-> [r \in Runs |-> Conflict(jt[c][r])]]
LtConflicts == [c \in Clients |-> Conflict(lt[c])]

(* ------------------------------- Init ---------------------------------- *)
Init ==
    /\ now = 1
    /\ session = NoDoc
    /\ messages = <<>>
    /\ nextId = 1
    /\ page = [c \in Clients |-> "home"]
    /\ hasId = [c \in Clients |-> FALSE]
    /\ viewOnce = NotMounted
    /\ fetch = [c \in Clients |-> [r \in Runs |-> "idle"]]
    /\ form = [c \in Clients |-> FormInit]
    /\ jt = [c \in Clients |-> [r \in Runs |-> JoinIdle]]
    /\ lt = [c \in Clients |-> LeaveIdle]
    /\ sessionData = [c \in Clients |-> NoDoc]
    /\ presQ = [c \in Clients |-> <<>>]
    /\ st = [c \in Clients |-> [k \in SendSlots |-> SendIdle]]
    /\ msgView = [c \in Clients |-> <<>>]
    /\ fresh = [c \in Clients |-> FALSE]
    /\ destructionTimers = [c \in Clients |-> <<>>]
    /\ timeouts = [c \in Clients |-> EmptyBag]
    /\ budget = [creates |-> 0, visits |-> 0, navs |-> 0, sends |-> 0, leaves |-> 0,
                 notices |-> 0, rejects |-> 0]

(* --------------------------- route changes ----------------------------- *)
InFlight(t) == t.pc \notin {"idle", "done"}

\* the clients with a fetchSession or a handleJoin still running
Joining == {c \in Clients : \E r \in Runs : fetch[c][r] = "pending" \/ InFlight(jt[c][r])}

\* JoinChallenge mounts: the load effect stores/generates the id and runs
\* fetchSession once per render (userId '' and then the stored id)
EnterJoin(c) ==
    /\ Cardinality(Joining \cup {c}) <= MaxJoining
    /\ page' = [page EXCEPT ![c] = "join"]
    /\ hasId' = [hasId EXCEPT ![c] = TRUE]
    /\ UNCHANGED viewOnce
    /\ fetch' = [fetch EXCEPT ![c] = [r \in Runs |-> "pending"]]
    /\ form' = [form EXCEPT ![c] = FormInit]
    /\ UNCHANGED <<sessionData, presQ, sched>>

\* ChatInterface mounts: without a stored id it redirects to the join page,
\* otherwise it subscribes to the session document and writes presence online
EnterChat(c) ==
    IF hasId[c]
    THEN /\ page' = [page EXCEPT ![c] = "chat"]
         /\ sessionData' = [sessionData EXCEPT ![c] = NoDoc]
         /\ presQ' = [presQ EXCEPT ![c] = Append(@, "online")]
         /\ UNCHANGED <<hasId, viewOnce, fetch, form, sched>>
    ELSE EnterJoin(c)

\* a cleanup that empties the map and clears no timeout
CleanupKeepsTimeouts(c) ==
    /\ destructionTimers' = [destructionTimers EXCEPT ![c] = <<>>]
    /\ UNCHANGED timeouts

\* cleanup of the message subscription effect: unsubscribe(), clearTimeout
\* of every timer of the map, destructionTimers.current.clear()
Cleanup(c) ==
    /\ destructionTimers' = [destructionTimers EXCEPT ![c] = <<>>]
    /\ timeouts' = [timeouts EXCEPT ![c] =
           @ (-) SetToBag({[id |-> i, due |-> destructionTimers[c][i]] :
                               i \in DOMAIN destructionTimers[c]})]

\* ChatInterface unmounts: the effect cleanups unsubscribe, clear the timers
\* and write offline
LeaveChatPage(c) ==
    /\ page' = [page EXCEPT ![c] = "home"]
    /\ sessionData' = [sessionData EXCEPT ![c] = NoDoc]
    /\ presQ' = [presQ EXCEPT ![c] = Append(@, "offline")]
    /\ Cleanup(c)
    /\ msgView' = [msgView EXCEPT ![c] = <<>>]
    /\ fresh' = [fresh EXCEPT ![c] = FALSE]
    /\ UNCHANGED <<hasId, viewOnce, fetch, form>>

\* router.push(`/chat/${sessionId}`) issued by the join page
PushChat(c) ==
    IF page[c] = "chat"
    THEN UNCHANGED <<page, hasId, viewOnce, fetch, form, sessionData, presQ, sched>>
    ELSE EnterChat(c)

routes == <<page, hasId, viewOnce, fetch, form, sessionData, presQ, sched>>

Spend(k) == budget' = [budget EXCEPT ![k] = @ + 1]


(* ----------------------- create-chat-form.tsx -------------------------- *)
\* onSubmit: setDoc replaces the whole document with the form values and
\* createdAt, then pushes the chat route
CreateSession(c, data) ==
    /\ page[c] = "home"
    /\ budget.creates < MaxCreates
    /\ Spend("creates")
    /\ session' = [exists |-> TRUE, selfDestructSeconds |-> data.selfDestructSeconds,
                   kickOnWrongAnswer |-> data.kickOnWrongAnswer,
                   questions |-> data.questions, createdAt |-> now]
    /\ jt' = JtConflicts
    /\ lt' = LtConflicts
    /\ EnterChat(c)
    /\ UNCHANGED <<now, messages, nextId, st>>

(* ------------------------------ navigation ----------------------------- *)
\* the user opens /join/{sessionId} (home page dialog or link)
VisitJoin(c) ==
    /\ page[c] = "home"
    /\ budget.visits < MaxVisits
    /\ Spend("visits")
    /\ EnterJoin(c)
    /\ UNCHANGED <<now, session, messages, nextId, jt, lt, st>>

\* the user opens /chat/{sessionId} (address bar or link)
VisitChat(c) ==
    /\ page[c] # "chat"
    /\ budget.navs < MaxNavs
    /\ Spend("navs")
    /\ EnterChat(c)
    /\ UNCHANGED <<now, session, messages, nextId, jt, lt, st>>

\* the user navigates back to the home page without leaving the room
GoHome(c) ==
    /\ page[c] # "home"
    /\ budget.navs < MaxNavs
    /\ Spend("navs")
    /\ IF page[c] = "chat"
       THEN LeaveChatPage(c)
       ELSE /\ page' = [page EXCEPT ![c] = "home"]
            /\ UNCHANGED <<hasId, viewOnce, fetch, form, sessionData, presQ, sched>>
    /\ UNCHANGED <<now, session, messages, nextId, jt, lt, st>>

(* ------------------------- join-challenge.tsx -------------------------- *)
\* handleJoin is entered: setIsSubmitting(true), runTransaction starts
StartJoin(c, r) == [jt EXCEPT ![c][r] = [JoinIdle EXCEPT !.pc = "body"]]

\* a fetchSession that takes a missing document for a session without
\* questions and goes on to handleJoin
FetchSessionIgnoresMissing(c, r) ==
    /\ fetch[c][r] = "pending"
    /\ fetch' = [fetch EXCEPT ![c][r] = "done"]
    /\ UNCHANGED <<now, session, messages, nextId, lt, st, budget, hasId, viewOnce>>
    /\ IF ~session.exists
       THEN /\ ~InFlight(jt[c][r])
            /\ jt' = StartJoin(c, r)
            /\ UNCHANGED <<form, page, sessionData, presQ, sched>>
       ELSE IF Has(session, "participants") /\ Includes(session.participants, c)
       THEN /\ IF page[c] = "chat"
               THEN UNCHANGED <<page, sessionData, presQ>>
               ELSE /\ page' = [page EXCEPT ![c] = "chat"]
                    /\ sessionData' = [sessionData EXCEPT ![c] = NoDoc]
                    /\ presQ' = [presQ EXCEPT ![c] = Append(@, "online")]
            /\ UNCHANGED <<jt, form, sched>>
       ELSE IF Has(session, "participantCount") /\ session.participantCount >= 2
       THEN /\ form' = [form EXCEPT ![c].error = "This room is full and can no longer be joined."]
            /\ UNCHANGED <<jt, page, sessionData, presQ, sched>>
       ELSE IF ~Has(session, "questions") \/ Len(session.questions) = 0
       THEN /\ ~InFlight(jt[c][r])
            /\ jt' = StartJoin(c, r)
            /\ UNCHANGED <<form, page, sessionData, presQ, sched>>
       ELSE /\ form' = [form EXCEPT ![c].loaded = TRUE,
                                    ![c].questions = session.questions,
                                    ![c].kickOnWrongAnswer = session.kickOnWrongAnswer]
            /\ UNCHANGED <<jt, page, sessionData, presQ, sched>>

\* fetchSession after getDoc resolved
FetchSession(c, r) ==
    /\ fetch[c][r] = "pending"
    /\ fetch' = [fetch EXCEPT ![c][r] = "done"]
    /\ UNCHANGED <<now, session, messages, nextId, lt, st, budget, hasId, viewOnce>>
    /\ IF ~session.exists
       THEN /\ form' = [form EXCEPT ![c].error = "Session not found or has expired."]
            /\ UNCHANGED <<jt, page, sessionData, presQ, sched>>
       ELSE IF Has(session, "participants") /\ Includes(session.participants, c)
       THEN /\ IF page[c] = "chat"
               THEN UNCHANGED <<page, sessionData, presQ>>
               ELSE /\ page' = [page EXCEPT ![c] = "chat"]
                    /\ sessionData' = [sessionData EXCEPT ![c] = NoDoc]
                    /\ presQ' = [presQ EXCEPT ![c] = Append(@, "online")]
            /\ UNCHANGED <<jt, form, sched>>
       ELSE IF Has(session, "participantCount") /\ session.participantCount >= 2
       THEN /\ form' = [form EXCEPT ![c].error = "This room is full and can no longer be joined."]
            /\ UNCHANGED <<jt, page, sessionData, presQ, sched>>
       ELSE IF ~Has(session, "questions") \/ Len(session.questions) = 0
       THEN /\ ~InFlight(jt[c][r])
            /\ jt' = StartJoin(c, r)
            /\ UNCHANGED <<form, page, sessionData, presQ, sched>>
       ELSE /\ form' = [form EXCEPT ![c].loaded = TRUE,
                                    ![c].questions = session.questions,
                                    ![c].kickOnWrongAnswer = session.kickOnWrongAnswer]
            /\ UNCHANGED <<jt, page, sessionData, presQ, sched>>

\* the loop of onSubmit: stops at the first answer that differs
RECURSIVE AllCorrectFrom(_, _, _)
AllCorrectFrom(qs, ans, i) ==
    IF i > Len(qs) THEN TRUE
    ELSE IF ans[i] # qs[i] THEN FALSE
    ELSE AllCorrectFrom(qs, ans, i + 1)

\* mutant: only the first answer is compared
AllCorrectFirstOnly(qs, ans) == Len(qs) = 0 \/ ans[1] = qs[1]

AllCorrect(qs, ans) == AllCorrectFrom(qs, ans, 1)

\* onSubmit of the challenge form
SubmitAnswers(c, ans) ==
    /\ page[c] = "join"
    /\ form[c].loaded
    /\ form[c].error = ""
    /\ ~form[c].showKickDialog
    /\ jt[c]["second"].pc = "idle"
    /\ IF AllCorrect(form[c].questions, ans)
       THEN /\ jt' = StartJoin(c, "second")
            /\ UNCHANGED form
       ELSE /\ IF form[c].kickOnWrongAnswer
               THEN form' = [form EXCEPT ![c].showKickDialog = TRUE]
               ELSE form' = [form EXCEPT ![c].alerted = TRUE]
            /\ UNCHANGED jt
    /\ UNCHANGED <<now, session, messages, nextId, lt, st, budget,
                   page, hasId, viewOnce, fetch, sessionData, presQ, sched>>

\* mutant: the capacity check is off by one
RoomIsFullOffByOne(ps) == Len(ps) > 2

\* if (participants.length >= 2) throw new Error("This room is full.")
RoomIsFull(ps) == Len(ps) >= 2

\* one run of the transaction body: transaction.get, the checks, the buffered
\* transaction.update and `await addDoc(...)`. addDoc is a write of its own:
\* it is applied at once and is not part of the transaction
JoinBody(c, r) ==
    /\ jt[c][r].pc = "body"
    /\ UNCHANGED <<now, session, lt, st, page, hasId, viewOnce, fetch, sessionData, presQ, sched>>
    /\ IF ~session.exists
       THEN /\ jt' = [jt EXCEPT ![c][r].pc = "done", ![c][r].outcome = "disappeared"]
            /\ form' = [form EXCEPT ![c].error = "Session disappeared."]
            /\ UNCHANGED <<messages, nextId, budget>>
       ELSE IF RoomIsFull(ParticipantsOf(session))
       THEN /\ jt' = [jt EXCEPT ![c][r].pc = "done", ![c][r].outcome = "full"]
            /\ form' = [form EXCEPT ![c].error = "This room is full."]
            /\ UNCHANGED <<messages, nextId, budget>>
       ELSE IF Includes(ParticipantsOf(session), Uid(c, r))
       THEN /\ jt' = [jt EXCEPT ![c][r].pc = "commit", ![c][r].conflict = FALSE,
                                ![c][r].write = FALSE]
            /\ UNCHANGED <<form, messages, nextId, budget>>
       ELSE /\ budget.notices < MaxNotices
            /\ Spend("notices")
            /\ jt' = [jt EXCEPT ![c][r].pc = "commit", ![c][r].conflict = FALSE,
                                ![c][r].write = TRUE,
                                ![c][r].list = Append(ParticipantsOf(session), Uid(c, r)),
                                ![c][r].msgs = @ + 1]
            /\ messages' = Append(messages, SystemMessage(nextId, JoinedText, Uid(c, r), now))
            /\ nextId' = nextId + 1
            /\ UNCHANGED form

\* the commit of the transaction: applied when the session document is as it
\* was read, retried from the body otherwise, given up after MaxAttempts
JoinCommit(c, r) ==
    /\ jt[c][r].pc = "commit"
    /\ UNCHANGED <<now, messages, nextId, st, budget>>
    /\ IF jt[c][r].conflict
       THEN /\ UNCHANGED <<session, lt, page, hasId, viewOnce, fetch, sessionData, presQ, sched>>
            /\ IF jt[c][r].attempts + 1 >= MaxAttempts
               THEN /\ jt' = [jt EXCEPT ![c][r].pc = "done", ![c][r].outcome = "aborted",
                                        ![c][r].attempts = @ + 1]
                    /\ form' = [form EXCEPT ![c].error = "aborted"]
               ELSE /\ jt' = [jt EXCEPT ![c][r].pc = "body", ![c][r].attempts = @ + 1]
                    /\ UNCHANGED form
       ELSE /\ IF jt[c][r].write
               THEN /\ session' = Put(Put(session, "participants", jt[c][r].list),
                                      "participantCount", Len(jt[c][r].list))
                    /\ jt' = [JtConflicts EXCEPT ![c][r].pc = "done",
                                                 ![c][r].conflict = FALSE,
                                                 ![c][r].outcome = "joined"]
                    /\ lt' = LtConflicts
               ELSE /\ jt' = [jt EXCEPT ![c][r].pc = "done", ![c][r].outcome = "already"]
                    /\ UNCHANGED <<session, lt>>
            /\ PushChat(c)

\* the kick dialog is closed again (onOpenChange) without leaving the page
DismissKickDialog(c) ==
    /\ page[c] = "join"
    /\ form[c].showKickDialog
    /\ form' = [form EXCEPT ![c].showKickDialog = FALSE]
    /\ UNCHANGED <<now, session, messages, nextId, jt, lt, st, budget,
                   page, hasId, viewOnce, fetch, sessionData, presQ, sched>>

(* ------------------------- chat-interface.tsx -------------------------- *)
\* onSnapshot of the session document: setSessionData, or back to the home
\* page when the document does not exist. sessionData is a dependency of the
\* message subscription effect: its cleanup runs and a new listener is set up
SessionSnapshot(c) ==
    /\ page[c] = "chat"
    /\ sessionData[c] # session
    /\ Cleanup(c)
    /\ IF session.exists
       THEN /\ sessionData' = [sessionData EXCEPT ![c] = session]
            /\ fresh' = [fresh EXCEPT ![c] = TRUE]
            /\ UNCHANGED <<page, presQ, msgView>>
       ELSE /\ page' = [page EXCEPT ![c] = "home"]
            /\ presQ' = [presQ EXCEPT ![c] = Append(@, "offline")]
            /\ fresh' = [fresh EXCEPT ![c] = FALSE]
            /\ msgView' = [msgView EXCEPT ![c] = <<>>]
            /\ UNCHANGED sessionData
    /\ UNCHANGED <<now, session, messages, nextId, jt, lt, st, budget,
                   hasId, viewOnce, fetch, form>>

\* a presence write that stores a presence map holding the writer's slot only
SetSlotReplacesMap(p, u, s, t) ==
    [x \in {u} |-> [status |-> s, last_active |-> t]]

\* a presence write that records online whatever the effect asked for
SetSlotAlwaysOnline(p, u, s, t) ==
    [x \in (DOMAIN p) \cup {u} |->
        IF x = u THEN [status |-> "online", last_active |-> t] ELSE p[x]]

\* updateDoc of presence.{userId}.status / .last_active queued by the presence
\* effect (online) or its cleanup (offline); a failed write is swallowed
SetSlot(p, u, s, t) ==
    [x \in (DOMAIN p) \cup {u} |->
        IF x = u THEN [status |-> s, last_active |-> t] ELSE p[x]]

PresenceWrite(c) ==
    /\ presQ[c] # <<>>
    /\ presQ' = [presQ EXCEPT ![c] = Tail(@)]
    /\ IF session.exists
       THEN /\ session' = Put(session, "presence",
                              SetSlot(PresenceOf(session), c, Head(presQ[c]), now))
            /\ jt' = JtConflicts
            /\ lt' = LtConflicts
       ELSE UNCHANGED <<session, jt, lt>>
    /\ UNCHANGED <<now, messages, nextId, st, budget, page, hasId, viewOnce, fetch, form,
                   sessionData, sched>>

\* the leave button: handleLeaveChat is entered
LeaveStart(c) ==
    /\ page[c] = "chat"
    /\ ~InFlight(lt[c])
    /\ budget.leaves < MaxLeaves
    /\ Spend("leaves")
    /\ lt' = [lt EXCEPT ![c] = [LeaveIdle EXCEPT !.pc = "body"]]
    /\ UNCHANGED <<now, session, messages, nextId, jt, st, routes>>

\* router.push('/') of the finally block
PushHome(c) ==
    IF page[c] = "chat"
    THEN LeaveChatPage(c)
    ELSE /\ page' = [page EXCEPT ![c] = "home"]
         /\ UNCHANGED <<hasId, viewOnce, fetch, form, sessionData, presQ, sched>>

\* the body of the leave transaction
LeaveBody(c) ==
    /\ lt[c].pc = "body"
    /\ UNCHANGED <<now, session, messages, nextId, jt, st, budget>>
    /\ IF ~session.exists
       THEN /\ lt' = [lt EXCEPT ![c].pc = "done", ![c].outcome = "nodoc"]
            /\ PushHome(c)
       ELSE /\ lt' = [lt EXCEPT ![c].pc = "commit", ![c].conflict = FALSE,
                        ![c].list = Filter(ParticipantsOf(session), c),
                        ![c].pres = DeleteSlot(PresenceOf(session), c),
                        ![c].msg = Includes(ParticipantsOf(session), c)]
            /\ UNCHANGED routes

\* the commit of the leave transaction: the update of the session document
\* and the set of the system message are one atomic write
LeaveCommit(c) ==
    /\ lt[c].pc = "commit"
    /\ UNCHANGED <<now, st>>
    /\ IF lt[c].conflict
       THEN /\ UNCHANGED <<session, messages, nextId, jt, budget>>
            /\ IF lt[c].attempts + 1 >= MaxAttempts
               THEN /\ lt' = [lt EXCEPT ![c].pc = "done", ![c].outcome = "aborted",
                                        ![c].attempts = @ + 1]
                    /\ PushHome(c)
               ELSE /\ lt' = [lt EXCEPT ![c].pc = "body", ![c].attempts = @ + 1]
                    /\ UNCHANGED routes
       ELSE /\ session' = Put(Put(Put(session, "participants", lt[c].list),
                                  "participantCount", Len(lt[c].list)),
                              "presence", lt[c].pres)
            /\ IF lt[c].msg
               THEN /\ budget.notices < MaxNotices
                    /\ Spend("notices")
                    /\ messages' = Append(messages, SystemMessage(nextId, LeftText, c, now))
                    /\ nextId' = nextId + 1
               ELSE UNCHANGED <<messages, nextId, budget>>
            /\ jt' = JtConflicts
            /\ lt' = [LtConflicts EXCEPT ![c].pc = "done", ![c].conflict = FALSE,
                         ![c].outcome = IF lt[c].msg THEN "left" ELSE "noop"]
            /\ PushHome(c)

\* sessionData.participants.find(p => p !== userId) || null ; '' stands for
\* null, as the empty id is falsy
FindOther(s, u, i) ==
    LET idx == {j \in i..Len(s) : s[j] # u}
    IN IF idx = {} THEN EmptyId
       ELSE s[CHOOSE j \in idx : \A k \in idx : j <= k]

\* mutant: the peer is taken to be the client itself
OtherParticipantIsSelf(c) == c

OtherParticipantId(c) ==
    IF ~Has(sessionData[c], "participants") THEN EmptyId
    ELSE FindOther(sessionData[c].participants, c, 1)

\* handleSendMessage / handleSendImage is entered with the closure's
\* otherParticipantId; the invocation takes the first free slot
SendStart(c, k, type) ==
    /\ page[c] = "chat"
    /\ st[c][k].pc = "idle"
    /\ \A j \in SendSlots : j < k => st[c][j].pc # "idle"
    /\ budget.sends < MaxSends
    /\ Spend("sends")
    /\ st' = [st EXCEPT ![c][k] = [pc |-> "query", type |-> type,
                                   other |-> OtherParticipantId(c), batch |-> {}]]
    /\ UNCHANGED <<now, session, messages, nextId, jt, lt, routes>>

\* where('senderId', '==', otherParticipantId), where('seenAt', '==', null)
Unread(other) ==
    {messages[i].id : i \in {j \in 1..Len(messages) :
        messages[j].senderId = other /\ messages[j].seenAt = Null}}

\* markOtherMessagesAsRead: the batch of seenAt updates, empty without a peer
SendQuery(c, k) ==
    /\ st[c][k].pc = "query"
    /\ st' = [st EXCEPT ![c][k].pc = "commit",
                        ![c][k].batch = IF st[c][k].other = EmptyId THEN {}
                                        ELSE Unread(st[c][k].other)]
    /\ UNCHANGED <<now, session, messages, nextId, jt, lt, budget, routes>>

MessageIds == {messages[i].id : i \in 1..Len(messages)}

\* batch.update(doc.ref, { seenAt: serverTimestamp() }) for each of ids
MarkSeen(ms, ids, t) ==
    [i \in 1..Len(ms) |-> IF ms[i].id \in ids THEN [ms[i] EXCEPT !.seenAt = t] ELSE ms[i]]

\* a commit whose seenAt writes create the documents they do not find
SendCommitRecreates(c, k) ==
    /\ st[c][k].pc = "commit"
    /\ st' = [st EXCEPT ![c][k] = SendIdle]
    /\ LET gone == st[c][k].batch \ MessageIds
           marked == MarkSeen(messages, st[c][k].batch, now)
           again == IF gone = {} THEN marked
                    ELSE Append(marked,
                           [UserMessage(CHOOSE id \in gone : TRUE, st[c][k].other,
                                        "text", Null) EXCEPT !.seenAt = now])
       IN messages' = Append(again, UserMessage(nextId, c, st[c][k].type, now))
    /\ nextId' = nextId + 1
    /\ UNCHANGED <<now, session, jt, lt, budget, routes>>

\* batch.commit(): the seenAt updates and the new message are one atomic
\* write; an update of a document that no longer exists fails the whole batch
SendCommit(c, k) ==
    /\ st[c][k].pc = "commit"
    /\ st' = [st EXCEPT ![c][k] = SendIdle]
    /\ IF st[c][k].batch \subseteq MessageIds
       THEN /\ messages' = Append(MarkSeen(messages, st[c][k].batch, now),
                                  UserMessage(nextId, c, st[c][k].type, now))
            /\ nextId' = nextId + 1
       ELSE UNCHANGED <<messages, nextId>>
    /\ UNCHANGED <<now, session, jt, lt, budget, routes>>

\* the server clock advances
Tick ==
    /\ now < MaxTime
    /\ now' = now + 1
    /\ UNCHANGED <<session, messages, nextId, jt, lt, st, budget, routes>>

(* ------------- chat-interface.tsx: destruction scheduler --------------- *)
\* sessionData.selfDestructSeconds > 0 && message.seenAt
HasSeenDeadline(sd, m) == sd.selfDestructSeconds > 0 /\ m.seenAt # Null

\* sessionData.selfDestructUnseenSeconds > 0 && !message.seenAt &&
\* message.createdAt ; a field the document lacks reads as undefined, and
\* undefined > 0 is false
HasUnseenDeadline(sd, m) ==
    /\ ~HasSeenDeadline(sd, m)
    /\ Has(sd, "selfDestructUnseenSeconds")
    /\ sd.selfDestructUnseenSeconds > 0
    /\ m.seenAt = Null
    /\ m.createdAt # Null

\* mutant: the delay is counted from the creation of the message
DestructionTimeFromCreation(sd, m) == m.createdAt + sd.selfDestructSeconds

\* a deadline that keeps counting from the creation of a message that has
\* been seen
DestructionTimeUnseenFirst(sd, m) ==
    IF /\ Has(sd, "selfDestructUnseenSeconds")
       /\ sd.selfDestructUnseenSeconds > 0
       /\ m.createdAt # Null
    THEN m.createdAt + sd.selfDestructUnseenSeconds
    ELSE m.seenAt + sd.selfDestructSeconds

\* const destructionTime = ...
DestructionTime(sd, m) ==
    IF HasSeenDeadline(sd, m) THEN m.seenAt + sd.selfDestructSeconds
    ELSE m.createdAt + sd.selfDestructUnseenSeconds

Timeout(id, due) == [id |-> id, due |-> due]

\* mutant: the map entry is dropped without clearTimeout
ClearTimerKeepsTimeout(s, id) ==
    [s EXCEPT !.table = [x \in (DOMAIN s.table) \ {id} |-> s.table[x]]]

\* clearTimeout(destructionTimers.current.get(id)) and
\* destructionTimers.current.delete(id), when the map has the id
ClearTimer(s, id) ==
    IF id \in DOMAIN s.table
    THEN [s EXCEPT !.live = @ (-) SetToBag({Timeout(id, s.table[id])}),
                   !.table = [x \in (DOMAIN s.table) \ {id} |-> s.table[x]]]
    ELSE s

\* const timeoutId = setTimeout(...); destructionTimers.current.set(id, timeoutId)
SetTimer(s, id, due) ==
    [s EXCEPT !.live = @ (+) SetToBag({Timeout(id, due)}),
              !.table = [x \in (DOMAIN s.table) \cup {id} |->
                            IF x = id THEN due ELSE s.table[x]]]

\* a forEach body that sets a timer whether or not the deadline is past
ScheduleDocTimerOnly(s, sd, m, t) ==
    LET c == ClearTimer(s, m.id)
    IN IF HasSeenDeadline(sd, m) \/ HasUnseenDeadline(sd, m)
       THEN SetTimer(c, m.id, DestructionTime(sd, m))
       ELSE c

\* the body of querySnapshot.forEach for one document at Date.now() = t
ScheduleDoc(s, sd, m, t) ==
    LET c == ClearTimer(s, m.id)
    IN IF HasSeenDeadline(sd, m) \/ HasUnseenDeadline(sd, m)
       THEN IF DestructionTime(sd, m) <= t
            THEN [c EXCEPT !.dels = @ \cup {m.id}]
            ELSE SetTimer(c, m.id, DestructionTime(sd, m))
       ELSE c

RECURSIVE ScheduleAll(_, _, _, _)
ScheduleAll(s, sd, ms, t) ==
    IF ms = <<>> THEN s
    ELSE ScheduleAll(ScheduleDoc(s, sd, Head(ms), t), sd, Tail(ms), t)

\* a callback that keeps the timers of the ids that left the snapshot
DropGoneKeepsAll(s, ids) == s

\* destructionTimers.current.forEach: the timers of the ids that are not in
\* the snapshot are cleared and dropped
DropGone(s, ids) ==
    [s EXCEPT !.live = @ (-) SetToBag({Timeout(i, s.table[i]) :
                                          i \in (DOMAIN s.table) \ ids}),
              !.table = [x \in (DOMAIN s.table) \cap ids |-> s.table[x]]]

\* the onSnapshot callback of the message query
OnMessages(s, sd, ms, t) ==
    ScheduleAll(DropGone(s, {ms[i].id : i \in 1..Len(ms)}), sd, ms, t)

\* a store whose delete of a missing document removes the newest document
DeleteDocsOrNewest(ms, ids) ==
    IF ids = {} \/ \E i \in 1..Len(ms) : ms[i].id \in ids
    THEN SelectSeq(ms, LAMBDA m : m.id \notin ids)
    ELSE SubSeq(ms, 1, Len(ms) - 1)

\* deleteDoc(doc.ref) for each of ids, as the store applies it: a document
\* that is already gone is no error
DeleteDocs(ms, ids) == SelectSeq(ms, LAMBDA m : m.id \notin ids)

\* a snapshot of the message query is delivered to the listener of c: the
\* first one of a new listener, or one that follows a change of the log. The
\* store accepts the deletes the callback issues or rejects some (the error
\* is logged, the local removal is rolled back and the listener is notified)
MessageSnapshot(c) ==
    /\ page[c] = "chat"
    /\ sessionData[c].exists
    /\ fresh[c] \/ msgView[c] # messages
    /\ LET r == OnMessages([table |-> destructionTimers[c], live |-> timeouts[c],
                            dels |-> {}], sessionData[c], messages, now)
       IN /\ destructionTimers' = [destructionTimers EXCEPT ![c] = r.table]
          /\ timeouts' = [timeouts EXCEPT ![c] = r.live]
          /\ msgView' = [msgView EXCEPT ![c] = messages]
          /\ \E rej \in SUBSET r.dels :
                /\ IF rej = {} THEN UNCHANGED budget
                   ELSE budget.rejects < MaxRejects /\ Spend("rejects")
                /\ messages' = DeleteDocs(messages, r.dels \ rej)
                /\ fresh' = [fresh EXCEPT ![c] = (rej # {})]
    /\ UNCHANGED <<now, session, nextId, page, hasId, viewOnce, fetch, form, jt, lt,
                   sessionData, presQ, st>>

\* a timeout that stays armed when its delete is rejected, to fire again
TimerFireRearms(c, h) ==
    /\ BagIn(h, timeouts[c])
    /\ now >= h.due
    /\ \E accepted \in BOOLEAN :
          IF accepted
          THEN /\ timeouts' = [timeouts EXCEPT ![c] = @ (-) SetToBag({h})]
               /\ destructionTimers' = [destructionTimers EXCEPT ![c] =
                                           [x \in (DOMAIN @) \ {h.id} |-> @[x]]]
               /\ messages' = DeleteDocs(messages, {h.id})
               /\ UNCHANGED <<budget, fresh>>
          ELSE /\ budget.rejects < MaxRejects
               /\ Spend("rejects")
               /\ fresh' = [fresh EXCEPT ![c] = TRUE]
               /\ UNCHANGED <<messages, timeouts, destructionTimers>>
    /\ UNCHANGED <<now, session, nextId, page, hasId, viewOnce, fetch, form, jt, lt,
                   sessionData, presQ, st, msgView>>

\* a timeout that forgets its deleteDoc: the timer is spent and the message
\* stays
TimerFireWithoutDelete(c, h) ==
    /\ BagIn(h, timeouts[c])
    /\ now >= h.due
    /\ timeouts' = [timeouts EXCEPT ![c] = @ (-) SetToBag({h})]
    /\ destructionTimers' = [destructionTimers EXCEPT ![c] =
                                [x \in (DOMAIN @) \ {h.id} |-> @[x]]]
    /\ UNCHANGED <<now, session, nextId, page, hasId, viewOnce, fetch, form, jt, lt,
                   sessionData, presQ, st, msgView, messages, budget, fresh>>

\* a timeout of c fires, at its due time or later: deleteDoc(doc.ref) and
\* destructionTimers.current.delete(doc.id)
TimerFire(c, h) ==
    /\ BagIn(h, timeouts[c])
    /\ now >= h.due
    /\ timeouts' = [timeouts EXCEPT ![c] = @ (-) SetToBag({h})]
    /\ destructionTimers' = [destructionTimers EXCEPT ![c] =
                                [x \in (DOMAIN @) \ {h.id} |-> @[x]]]
    /\ \E accepted \in BOOLEAN :
          IF accepted
          THEN /\ messages' = DeleteDocs(messages, {h.id})
               /\ UNCHANGED <<budget, fresh>>
          ELSE /\ budget.rejects < MaxRejects
               /\ Spend("rejects")
               /\ fresh' = [fresh EXCEPT ![c] = TRUE]
               /\ UNCHANGED messages
    /\ UNCHANGED <<now, session, nextId, page, hasId, viewOnce, fetch, form, jt, lt,
                   sessionData, presQ, st, msgView>>

\* time passes
Elapse ==
    /\ now < MaxClock
    /\ \E t \in (now + 1)..MaxClock : now' = t
    /\ UNCHANGED <<session, messages, nextId, jt, lt, st, budget, routes>>

(* ------------------------------- Next ---------------------------------- *)
\* admission: creation, the join page and the presence writes of the clients
\* it admits
Next ==
    \/ \E data \in FormValues : CreateSession(Creator, data)
    \/ \E c \in Clients : VisitJoin(c)
    \/ \E c \in Clients, r \in Runs : FetchSession(c, r)
    \/ \E c \in Clients : \E ans \in [1..Len(form[c].questions) -> Options] :
           SubmitAnswers(c, ans)
    \/ \E c \in Clients : DismissKickDialog(c)
    \/ \E c \in Clients, r \in Runs : JoinBody(c, r)
    \/ \E c \in Clients, r \in Runs : JoinCommit(c, r)
    \/ \E c \in Clients : PresenceWrite(c)

Spec == Init /\ [][Next]_vars

(* ------------------------- the room, once open ------------------------- *)
\* A state Spec reaches: the creator c1 has created a session with questions
\* and stands on the join page, c2 has opened the join page, and both runs of
\* fetchSession of both have shown the challenge form
InitLobby ==
    /\ now = 1
    /\ session = [exists |-> TRUE, selfDestructSeconds |-> 5,
                  kickOnWrongAnswer |-> TRUE, questions |-> <<"0", "1">>,
                  createdAt |-> 1]
    /\ messages = <<>>
    /\ nextId = 1
    /\ page = [c \in Clients |-> IF c = "c3" THEN "home" ELSE "join"]
    /\ hasId = [c \in Clients |-> c # "c3"]
    /\ viewOnce = NotMounted
    /\ fetch = [c \in Clients |-> [r \in Runs |-> IF c = "c3" THEN "idle" ELSE "done"]]
    /\ form = [c \in Clients |->
                 IF c = "c3" THEN FormInit
                 ELSE [FormInit EXCEPT !.loaded = TRUE, !.questions = <<"0", "1">>,
                                       !.kickOnWrongAnswer = TRUE]]
    /\ jt = [c \in Clients |-> [r \in Runs |-> JoinIdle]]
    /\ lt = [c \in Clients |-> LeaveIdle]
    /\ sessionData = [c \in Clients |-> NoDoc]
    /\ presQ = [c \in Clients |-> <<>>]
    /\ st = [c \in Clients |-> [k \in SendSlots |-> SendIdle]]
    /\ msgView = [c \in Clients |-> <<>>]
    /\ fresh = [c \in Clients |-> FALSE]
    /\ destructionTimers = [c \in Clients |-> <<>>]
    /\ timeouts = [c \in Clients |-> EmptyBag]
    /\ budget = [creates |-> 1, visits |-> 1, navs |-> 0, sends |-> 0, leaves |-> 0,
                 notices |-> 0, rejects |-> 0]

\* joins, leaves, presence and navigation of the clients of one session
NextRoom ==
    \/ \E c \in Clients : VisitChat(c)
    \/ \E c \in Clients : GoHome(c)
    \/ \E c \in Clients, r \in Runs : FetchSession(c, r)
    \/ \E c \in Clients : \E ans \in [1..Len(form[c].questions) -> Options] :
           SubmitAnswers(c, ans)
    \/ \E c \in Clients : DismissKickDialog(c)
    \/ \E c \in Clients, r \in Runs : JoinBody(c, r)
    \/ \E c \in Clients, r \in Runs : JoinCommit(c, r)
    \/ \E c \in Clients : PresenceWrite(c)
    \/ \E c \in Clients : LeaveStart(c)
    \/ \E c \in Clients : LeaveBody(c)
    \/ \E c \in Clients : LeaveCommit(c)

SpecRoom == InitLobby /\ [][NextRoom]_vars

(* ------------------------ the room, once full ------------------------- *)
\* the handleJoin invocation that added the last entry of list
JoinedTask(list) ==
    [JoinIdle EXCEPT !.pc = "done", !.write = TRUE, !.list = list, !.msgs = 1,
                     !.outcome = "joined"]

\* A state SpecRoom reaches: c1 and then c2 have answered the challenge and
\* joined, both stand on the chat page with their presence written, and the
\* first snapshot of the session document has not been delivered yet
InitChat ==
    /\ now = 1
    /\ session = [exists |-> TRUE, selfDestructSeconds |-> 5,
                  kickOnWrongAnswer |-> TRUE, questions |-> <<"0", "1">>,
                  createdAt |-> 1, participants |-> <<"c1", "c2">>,
                  participantCount |-> 2,
                  presence |-> [c \in {"c1", "c2"} |->
                                  [status |-> "online", last_active |-> 1]]]
    /\ messages = <<SystemMessage(1, JoinedText, "c1", 1),
                    SystemMessage(2, JoinedText, "c2", 1)>>
    /\ nextId = 3
    /\ page = [c \in Clients |-> IF c = "c3" THEN "home" ELSE "chat"]
    /\ hasId = [c \in Clients |-> c # "c3"]
    /\ viewOnce = NotMounted
    /\ fetch = [c \in Clients |-> [r \in Runs |-> IF c = "c3" THEN "idle" ELSE "done"]]
    /\ form = [c \in Clients |->
                 IF c = "c3" THEN FormInit
                 ELSE [FormInit EXCEPT !.loaded = TRUE, !.questions = <<"0", "1">>,
                                       !.kickOnWrongAnswer = TRUE]]
    /\ jt = [c \in Clients |-> [r \in Runs |->
                 IF r = "first" \/ c = "c3" THEN JoinIdle
                 ELSE IF c = "c1" THEN JoinedTask(<<"c1">>)
                 ELSE JoinedTask(<<"c1", "c2">>)]]
    /\ lt = [c \in Clients |-> LeaveIdle]
    /\ sessionData = [c \in Clients |-> NoDoc]
    /\ presQ = [c \in Clients |-> <<>>]
    /\ st = [c \in Clients |-> [k \in SendSlots |-> SendIdle]]
    /\ msgView = [c \in Clients |-> <<>>]
    /\ fresh = [c \in Clients |-> FALSE]
    /\ destructionTimers = [c \in Clients |-> <<>>]
    /\ timeouts = [c \in Clients |-> EmptyBag]
    /\ budget = [creates |-> 1, visits |-> 1, navs |-> 0, sends |-> 0, leaves |-> 0,
                 notices |-> 2, rejects |-> 0]

\* snapshots, sends, the clock, and the leaves that change the peer a client
\* sees
NextChat ==
    \/ \E c \in Clients : SessionSnapshot(c)
    \/ \E c \in Clients, k \in SendSlots, type \in {"text", "image"} :
           SendStart(c, k, type)
    \/ \E c \in Clients, k \in SendSlots : SendQuery(c, k)
    \/ \E c \in Clients, k \in SendSlots : SendCommit(c, k)
    \/ Tick
    \/ \E c \in Clients : LeaveStart(c)
    \/ \E c \in Clients : LeaveBody(c)
    \/ \E c \in Clients : LeaveCommit(c)

SpecChat == InitChat /\ [][NextChat]_vars

(* ---------------------- the destruction scheduler --------------------- *)
\* the timeouts of all clients
AllTimeouts == UNION {BagToSet(timeouts[c]) : c \in Clients}

\* the full room with its listeners, timers and clock: sends mark messages
\* seen, snapshots schedule, timers fire, clients detach
NextTimers ==
    \/ \E c \in Clients : SessionSnapshot(c)
    \/ \E c \in Clients : MessageSnapshot(c)
    \/ \E c \in Clients, k \in SendSlots : SendStart(c, k, "text")
    \/ \E c \in Clients, k \in SendSlots : SendQuery(c, k)
    \/ \E c \in Clients, k \in SendSlots : SendCommit(c, k)
    \/ \E c \in Clients : \E h \in AllTimeouts : TimerFire(c, h)
    \/ \E c \in Clients : GoHome(c)
    \/ Elapse

SpecTimers == InitChat /\ [][NextTimers]_vars

(* ------------------- the scheduler, scheduled fairly ------------------ *)
\* the clients of the full room
Attached == {"c1", "c2"}

\* A state SpecTimers reaches: both clients have received the session
\* document and the two join notices; c1 has sent message 3, c2 has sent
\* message 4 and thereby marked message 3 seen at 1, and c1 has sent message
\* 5 at 2 and thereby marked message 4 seen; the snapshots of the log that
\* follow the sends have not been delivered yet
InitLive ==
    /\ now = 2
    /\ session = [exists |-> TRUE, selfDestructSeconds |-> 5,
                  kickOnWrongAnswer |-> TRUE, questions |-> <<"0", "1">>,
                  createdAt |-> 1, participants |-> <<"c1", "c2">>,
                  participantCount |-> 2,
                  presence |-> [c \in Attached |->
                                  [status |-> "online", last_active |-> 1]]]
    /\ messages = <<SystemMessage(1, JoinedText, "c1", 1),
                    SystemMessage(2, JoinedText, "c2", 1),
                    [UserMessage(3, "c1", "text", 1) EXCEPT !.seenAt = 1],
                    [UserMessage(4, "c2", "text", 1) EXCEPT !.seenAt = 2],
                    UserMessage(5, "c1", "text", 2)>>
    /\ nextId = 6
    /\ page = [c \in Clients |-> IF c \in Attached THEN "chat" ELSE "home"]
    /\ hasId = [c \in Clients |-> c \in Attached]
    /\ viewOnce = NotMounted
    /\ fetch = [c \in Clients |-> [r \in Runs |->
                   IF c \in Attached THEN "done" ELSE "idle"]]
    /\ form = [c \in Clients |->
                 IF c \notin Attached THEN FormInit
                 ELSE [FormInit EXCEPT !.loaded = TRUE, !.questions = <<"0", "1">>,
                                       !.kickOnWrongAnswer = TRUE]]
    /\ jt = [c \in Clients |-> [r \in Runs |->
                 IF r = "first" \/ c \notin Attached THEN JoinIdle
                 ELSE IF c = "c1" THEN JoinedTask(<<"c1">>)
                 ELSE JoinedTask(<<"c1", "c2">>)]]
    /\ lt = [c \in Clients |-> LeaveIdle]
    /\ sessionData = [c \in Clients |-> IF c \in Attached THEN session ELSE NoDoc]
    /\ presQ = [c \in Clients |-> <<>>]
    /\ st = [c \in Clients |-> [k \in SendSlots |-> SendIdle]]
    /\ msgView = [c \in Clients |->
                    IF c \in Attached
                    THEN <<SystemMessage(1, JoinedText, "c1", 1),
                           SystemMessage(2, JoinedText, "c2", 1)>>
                    ELSE <<>>]
    /\ fresh = [c \in Clients |-> FALSE]
    /\ destructionTimers = [c \in Clients |-> <<>>]
    /\ timeouts = [c \in Clients |-> EmptyBag]
    /\ budget = [creates |-> 1, visits |-> 1, navs |-> 0, sends |-> 3, leaves |-> 0,
                 notices |-> 2, rejects |-> 0]

\* the room while both clients stay attached and send nothing more:
\* snapshots of the log, timers and the clock
NextLive ==
    \/ \E c \in Attached : MessageSnapshot(c)
    \/ \E c \in Attached : \E h \in AllTimeouts : TimerFire(c, h)
    \/ Elapse

\* The store delivers every snapshot a listener is owed, the event loop runs
\* every timeout that is due, and time passes. The store rejects at most
\* MaxRejects deletes, so it accepts deletes from some point on
Fairness ==
    /\ \A c \in Attached : WF_vars(MessageSnapshot(c))
    /\ \A c \in Attached : WF_vars(\E h \in AllTimeouts : TimerFire(c, h))
    /\ WF_vars(Elapse)

SpecLive == InitLive /\ [][NextLive]_vars /\ Fairness

(* ------------------ one delivery, over all its inputs ------------------ *)
\* destruction policies a session document can hold (SessionData); the
\* document has selfDestructUnseenSeconds or lacks it
Policies ==
    {[exists |-> TRUE, selfDestructSeconds |-> s, kickOnWrongAnswer |-> TRUE,
      questions |-> <<>>, createdAt |-> 1, participants |-> <<"c1", "c2">>,
      participantCount |-> 2] : s \in {0, 5, 10}}
    \cup
    {[exists |-> TRUE, selfDestructSeconds |-> s, selfDestructUnseenSeconds |-> u,
      kickOnWrongAnswer |-> TRUE, questions |-> <<>>, createdAt |-> 1,
      participants |-> <<"c1", "c2">>, participantCount |-> 2] :
         s \in {0, 5, 10}, u \in {0, 30}}

\* one message of the peer, in every combination of createdAt (null while
\* the server timestamp is pending) and seenAt, or a system notice, which no
\* client marks seen
SnapshotDocs ==
    {[id |-> 1, senderId |-> "c2", type |-> type, text |-> <<>>,
      createdAt |-> ca, seenAt |-> sa] :
         type \in {"text", "image"}, ca \in {Null, 1, 2}, sa \in {Null, 2}}
    \cup
    {[id |-> 1, senderId |-> SystemId, type |-> "system", text |-> <<>>,
      createdAt |-> ca, seenAt |-> Null] : ca \in {Null, 1, 2}}

\* c1 is attached with the policy as its sessionData, the listener of the
\* message query has just been set up, and Date.now() is one of four instants
InitDelivery ==
    /\ now \in {1, 6, 12, 32}
    /\ session \in Policies
    /\ \E m \in SnapshotDocs : messages = <<m>>
    /\ nextId = 2
    /\ page = [c \in Clients |-> IF c = "c1" THEN "chat" ELSE "home"]
    /\ hasId = [c \in Clients |-> c = "c1"]
    /\ viewOnce = NotMounted
    /\ fetch = [c \in Clients |-> [r \in Runs |-> "idle"]]
    /\ form = [c \in Clients |-> FormInit]
    /\ jt = [c \in Clients |-> [r \in Runs |-> JoinIdle]]
    /\ lt = [c \in Clients |-> LeaveIdle]
    /\ sessionData = [c \in Clients |-> IF c = "c1" THEN session ELSE NoDoc]
    /\ presQ = [c \in Clients |-> <<>>]
    /\ st = [c \in Clients |-> [k \in SendSlots |-> SendIdle]]
    /\ msgView = [c \in Clients |-> <<>>]
    /\ fresh = [c \in Clients |-> c = "c1"]
    /\ destructionTimers = [c \in Clients |-> <<>>]
    /\ timeouts = [c \in Clients |-> EmptyBag]
    /\ budget = [creates |-> 1, visits |-> 1, navs |-> 0, sends |-> 0, leaves |-> 0,
                 notices |-> 0, rejects |-> 0]

NextDelivery == \E c \in Clients : MessageSnapshot(c)

SpecDelivery == InitDelivery /\ [][NextDelivery]_vars

(* ======================= admission: C1 .. C6 =========================== *)
\* the step is a run of the body of the join transaction of (c, r)
IsJoinBodyStep(c, r) == jt[c][r].pc = "body" /\ jt'[c][r].pc # "body"

JoinLeaveTexts == {JoinedText, LeftText}

\* number of "has joined the chat." / "has left the chat." messages in a log
RECURSIVE CountTexts(_, _)
CountTexts(ms, texts) ==
    IF ms = <<>> THEN 0
    ELSE (IF Head(ms).text[2] \in texts THEN 1 ELSE 0) + CountTexts(Tail(ms), texts)

NoDuplicates(s) == \A i, j \in 1..Len(s) : s[i] = s[j] => i = j

\* C1: in every reachable state of an existing session, participantCount
\* equals the number of entries of participants, and that number is at most 2
C1_CountEqualsParticipants ==
    session.exists =>
        /\ Has(session, "participants")
        /\ Has(session, "participantCount")
        /\ session.participantCount = Len(session.participants)
        /\ Len(session.participants) <= 2

\* C2: when two distinct clients have joined, each successful join has
\* produced exactly one "has joined the chat." message, and participants
\* never holds the same id twice
C2_OneJoinMessagePerJoin ==
    /\ NoDuplicates(ParticipantsOf(session))
    /\ \A c, d \in Clients : \A r, q \in Runs :
          (c # d /\ jt[c][r].outcome = "joined" /\ jt[d][q].outcome = "joined")
              => (jt[c][r].msgs = 1 /\ jt[d][q].msgs = 1)

\* C3: a step changes participants exactly when it appends one join/leave
\* system message: neither is ever committed without the other
C3_MessageInSameAtomicUnit ==
    [][LET changed == /\ session.exists
                      /\ session'.exists
                      /\ Has(session', "participants")
                      /\ ParticipantsOf(session') # ParticipantsOf(session)
           before == CountTexts(messages, JoinLeaveTexts)
           after == CountTexts(messages', JoinLeaveTexts)
       IN /\ changed => after = before + 1
          /\ ~changed => after = before]_vars

\* C4: a join by an id that is not a member of a session with 2 members is
\* rejected as RoomFull, by the page-load check or by the transaction, and
\* the session document is exactly what it was before
C4_ThirdJoinRejected ==
    [][/\ \A c \in Clients, r \in Runs :
            (/\ IsJoinBodyStep(c, r)
             /\ session.exists
             /\ Len(ParticipantsOf(session)) = 2
             /\ Uid(c, r) \notin Range(ParticipantsOf(session)))
            => /\ jt'[c][r].pc = "done"
               /\ jt'[c][r].outcome = "full"
               /\ form'[c].error = "This room is full."
               /\ session' = session
       /\ \A c \in Clients, r \in Runs :
            (/\ fetch[c][r] = "pending"
             /\ fetch'[c][r] = "done"
             /\ session.exists
             /\ Len(ParticipantsOf(session)) = 2
             /\ c \notin Range(ParticipantsOf(session)))
            => /\ form'[c].error = "This room is full and can no longer be joined."
               /\ jt' = jt
               /\ session' = session]_vars

\* a third client was rejected by the transaction of a room of two others
C4_Witness ==
    \E c \in Clients :
        /\ jt[c]["second"].outcome = "full"
        /\ Len(ParticipantsOf(session)) = 2
        /\ Range(ParticipantsOf(session)) \subseteq (Clients \ {c})

\* some answer differs from its question's correct option
AnyWrong(qs, ans) == \E i \in 1..Len(qs) : ans[i] # qs[i]

\* C5: submitting the challenge with any wrong answer is rejected, with the
\* kick dialog or the alert: no join transaction is started, and the session
\* document and the message log are unchanged
C5_WrongAnswerRejected ==
    [][\A c \in Clients : \A ans \in [1..Len(form[c].questions) -> Options] :
          (SubmitAnswers(c, ans) /\ AnyWrong(form[c].questions, ans))
              => /\ jt' = jt
                 /\ session' = session
                 /\ messages' = messages
                 /\ IF form[c].kickOnWrongAnswer
                    THEN form'[c].showKickDialog
                    ELSE form'[c].alerted]_vars

\* a wrong submission was rejected and its client has joined nothing
C5_Witness ==
    \E c \in Clients :
        /\ form[c].loaded
        /\ form[c].showKickDialog \/ form[c].alerted
        /\ jt[c]["second"].pc = "idle"
        /\ c \notin Range(ParticipantsOf(session))

\* C6: the body of a join transaction whose caller is already a member (of a
\* list of 1 or of 2) does not report RoomFull and writes nothing; RoomFull is
\* reported only for 2 members that do not include the caller
C6_MemberJoinIsIdempotent ==
    [][\A c \in Clients, r \in Runs :
          (IsJoinBodyStep(c, r) /\ session.exists)
          => /\ Uid(c, r) \in Range(ParticipantsOf(session))
                  => /\ jt'[c][r].outcome # "full"
                     /\ session' = session
                     /\ messages' = messages
             /\ jt'[c][r].outcome = "full"
                  => /\ Len(ParticipantsOf(session)) = 2
                     /\ Uid(c, r) \notin Range(ParticipantsOf(session))]_vars

(* ========================== leave: C7, C8 ============================== *)
\* the step commits the leave transaction of c
IsLeaveCommitStep(c) ==
    lt[c].pc = "commit" /\ lt'[c].pc = "done" /\ lt'[c].outcome # "aborted"

IsLeftMessage(m, c) ==
    /\ m.senderId = SystemId
    /\ m.type = "system"
    /\ m.text = <<Substring12(c), LeftText>>
    /\ m.seenAt = Null

\* C7: the commit of a leave by a listed participant removes exactly that
\* participant, sets participantCount to the new length (1 or 0), appends
\* exactly one "has left the chat." message and removes its presence slot
C7_LeaveByMember ==
    [][\A c \in Clients :
          (IsLeaveCommitStep(c) /\ c \in Range(ParticipantsOf(session)))
          => /\ Has(session', "participants")
             /\ Range(session'.participants) = Range(ParticipantsOf(session)) \ {c}
             /\ Len(session'.participants) = Len(ParticipantsOf(session)) - 1
             /\ session'.participantCount = Len(session'.participants)
             /\ session'.participantCount \in {0, 1}
             /\ Len(messages') = Len(messages) + 1
             /\ SubSeq(messages', 1, Len(messages)) = messages
             /\ IsLeftMessage(messages'[Len(messages')], c)
             /\ c \notin DOMAIN PresenceOf(session')]_vars

\* a member has left: it is off the list and its message is in the log
C7_Witness ==
    \E c \in Clients :
        /\ lt[c].outcome = "left"
        /\ c \notin Range(ParticipantsOf(session))
        /\ \E i \in 1..Len(messages) : IsLeftMessage(messages[i], c)

\* C8: the commit of a leave by an id that is not listed leaves the stored
\* participants and participantCount as they were and inserts no message
C8_LeaveByNonMember ==
    [][\A c \in Clients :
          (IsLeaveCommitStep(c) /\ c \notin Range(ParticipantsOf(session)))
          => /\ Has(session', "participants") = Has(session, "participants")
             /\ ParticipantsOf(session') = ParticipantsOf(session)
             /\ Has(session', "participantCount") = Has(session, "participantCount")
             /\ Has(session, "participantCount")
                    => session'.participantCount = session.participantCount
             /\ messages' = messages]_vars

(* ========================== seenAt: C9, C10 ============================ *)
\* the seenAt of the message with this id, null when there is none
SeenAtOf(ms, id) ==
    IF \E i \in 1..Len(ms) : ms[i].id = id
    THEN ms[CHOOSE i \in 1..Len(ms) : ms[i].id = id].seenAt
    ELSE Null

\* C9: once the seenAt of a message is non-null no step changes it, whatever
\* the interleaving of sends
C9_SeenAtNeverChanges ==
    [][\A i \in 1..Len(messages) :
          (messages[i].seenAt # Null /\ messages[i].id \in {messages'[j].id : j \in 1..Len(messages')})
          => SeenAtOf(messages', messages[i].id) = messages[i].seenAt]_vars

\* C10: every step that sets the seenAt of a message is the batch commit of
\* a client whose id differs from the senderId of that message
C10_NeverMarksOwn ==
    [][\A j \in 1..Len(messages') :
          messages'[j].seenAt # SeenAtOf(messages, messages'[j].id)
          => \E c \in Clients, k \in SendSlots :
                /\ st[c][k].pc = "commit"
                /\ st'[c][k].pc = "idle"
                /\ messages'[j].id \in st[c][k].batch
                /\ c # messages'[j].senderId]_vars

\* a message of a participant has been marked seen
C10_Witness ==
    \E i \in 1..Len(messages) :
        messages[i].senderId \in Clients /\ messages[i].seenAt # Null

(* ==================== the scheduler: C11 .. C19 ======================== *)
\* C11: a snapshot of the message log delivered to a client that has a peer
\* makes the client mark every unseen message of the peer: the step sets
\* their seenAt or starts the batch that does, without a send of the client
C11_SnapshotMarksSeen ==
    [][\A c \in Clients :
          (/\ MessageSnapshot(c)
           /\ OtherParticipantId(c) # EmptyId
           /\ Unread(OtherParticipantId(c)) # {})
          => \/ \A id \in Unread(OtherParticipantId(c)) :
                   SeenAtOf(messages', id) # Null
             \/ \E k \in SendSlots :
                   /\ st'[c][k] # st[c][k]
                   /\ st'[c][k].batch = Unread(OtherParticipantId(c))]_vars

\* the ids of the messages a step removes from the log
Deleted == {messages[i].id : i \in 1..Len(messages)} \
               {messages'[j].id : j \in 1..Len(messages')}

MessageOf(id) == messages[CHOOSE i \in 1..Len(messages) : messages[i].id = id]

\* C12: a step deletes a message only when the message has a deadline under
\* the session's policy and the clock has reached it (seenAt +
\* selfDestructSeconds for a message that was seen)
C12_NoDeleteBeforeDeadline ==
    [][\A id \in Deleted :
          /\ HasSeenDeadline(session, MessageOf(id))
                \/ HasUnseenDeadline(session, MessageOf(id))
          /\ DestructionTime(session, MessageOf(id)) <= now]_vars

\* the deadline of section 4.3, -1 for none
StatedDeadline(sd, m) ==
    IF m.seenAt # Null /\ sd.selfDestructSeconds > 0
    THEN m.seenAt + sd.selfDestructSeconds
    ELSE IF /\ m.seenAt = Null
            /\ m.createdAt # Null
            /\ Has(sd, "selfDestructUnseenSeconds")
            /\ sd.selfDestructUnseenSeconds > 0
    THEN m.createdAt + sd.selfDestructUnseenSeconds
    ELSE -1

\* C13: a delivery treats every message of the snapshot by its stated
\* deadline: none, no timer and no delete; a future one, a timer due at it; a
\* past one, no timer and a delete (which removes the message unless the
\* store rejects it)
C13_DeadlineAsStated ==
    [][\A c \in Clients :
          MessageSnapshot(c)
          => \A i \in 1..Len(messages) :
                LET m == messages[i]
                    d == StatedDeadline(sessionData[c], m)
                    kept == m.id \in {messages'[j].id : j \in 1..Len(messages')}
                    timed == m.id \in DOMAIN destructionTimers'[c]
                IN /\ d = -1 => (~timed /\ kept)
                   /\ d > now => (timed /\ destructionTimers'[c][m.id] = d /\ kept)
                   /\ (d # -1 /\ d <= now)
                         => (~timed /\ (~kept \/ budget'.rejects > budget.rejects))]_vars

\* a never-viewed message under selfDestructUnseenSeconds = 30 and
\* selfDestructSeconds = 10 has its timer due at createdAt + 30
C13_Witness ==
    /\ Has(session, "selfDestructUnseenSeconds")
    /\ session.selfDestructUnseenSeconds = 30
    /\ session.selfDestructSeconds = 10
    /\ Len(messages) = 1
    /\ messages[1].seenAt = Null
    /\ messages[1].createdAt # Null
    /\ messages[1].id \in DOMAIN destructionTimers["c1"]
    /\ destructionTimers["c1"][messages[1].id] = messages[1].createdAt + 30

\* the deletes the callback of c issues when ms is delivered to it now
Issued(c, ms) ==
    OnMessages([table |-> destructionTimers[c], live |-> timeouts[c], dels |-> {}],
               sessionData[c], ms, now).dels

\* C14: a delivery of the snapshot that was delivered before (same
\* sessionData, same clock) leaves the timers as they were and issues no
\* delete for a message for which the earlier delivery issued one
C14_RedeliveryIsIdempotent ==
    [][\A c \in Clients :
          (MessageSnapshot(c) /\ msgView[c] = messages /\ messages # <<>>)
          => /\ destructionTimers'[c] = destructionTimers[c]
             /\ timeouts'[c] = timeouts[c]
             /\ Issued(c, messages) \cap Issued(c, msgView[c]) = {}]_vars

\* C15: every client holds at most one live timeout per message id
C15_OneTimerPerMessage ==
    \A c \in Clients : \A h, g \in BagToSet(timeouts[c]) :
        /\ CopiesIn(h, timeouts[c]) = 1
        /\ h.id = g.id => h = g

\* a client holds the timer of a message seen at 2, due at 2 +
\* selfDestructSeconds
C15_Witness ==
    \E c \in Clients : \E i \in 1..Len(msgView[c]) :
        /\ msgView[c][i].seenAt = 2
        /\ BagIn(Timeout(msgView[c][i].id, 7), timeouts[c])

\* C16: no step removes a message of kind system from the log, and no
\* client ever holds a timer for one, whatever the policy
C16_SystemMessagesExempt ==
    [][\A i \in 1..Len(messages) :
          messages[i].type = "system"
          => /\ messages[i].id \in {messages'[j].id : j \in 1..Len(messages')}
             /\ \A c \in Clients : messages[i].id \notin DOMAIN destructionTimers'[c]]_vars

\* ids a message of the log can have
LiveIds == 3..(MaxSends + 2)

\* the message id is in the log, is no system message, and has a deadline
Doomed(id) ==
    \E i \in 1..Len(messages) :
        /\ messages[i].id = id
        /\ messages[i].senderId # SystemId
        /\ \/ HasSeenDeadline(session, messages[i])
           \/ HasUnseenDeadline(session, messages[i])

\* C17: while the clients stay attached and the store ends up accepting
\* deletes, every non-system message with a deadline is eventually deleted
C17_EventuallyDeleted ==
    \A id \in LiveIds : Doomed(id) ~> id \notin MessageIds

\* the two messages that were marked seen are deleted and the message that
\* was not stays, both clients attached
C17_Witness ==
    /\ MessageIds = {1, 2, 5}
    /\ now >= 2 + session.selfDestructSeconds
    /\ \A c \in Attached : page[c] = "chat" /\ timeouts[c] = EmptyBag

\* C18: once a client has detached its timer table is empty and none of its
\* timeouts is pending, and a detached client takes no snapshot of the log,
\* runs no timer callback and so issues no delete
C18_DetachCancelsTimers ==
    [][\A c \in Clients :
          /\ page'[c] # "chat" =>
                 /\ destructionTimers'[c] = <<>>
                 /\ timeouts'[c] = EmptyBag
                 /\ ~fresh'[c]
          /\ page[c] # "chat" =>
                 /\ ~MessageSnapshot(c)
                 /\ ~(\E h \in AllTimeouts : TimerFire(c, h))]_vars

\* c2 has detached; message 3, which c2 marked seen, is past its deadline and
\* still in the log, and the timer c1 holds for it is still pending
C18_Witness ==
    /\ page["c2"] = "home"
    /\ budget.navs = 1
    /\ timeouts["c2"] = EmptyBag
    /\ \E i \in 1..Len(messages) :
          /\ messages[i].id = 3
          /\ messages[i].seenAt # Null
          /\ now >= DestructionTime(session, messages[i])
    /\ 3 \in DOMAIN destructionTimers["c1"]

\* C19: a timer of c that fires for a message already deleted changes nothing
\* in the log, the message stays absent, the timer is forgotten and c stays
\* attached with its session and its view
C19_DeleteIsIdempotent ==
    [][\A c \in Clients : \A h \in AllTimeouts :
          (TimerFire(c, h) /\ h.id \notin MessageIds) =>
              /\ messages' = messages
              /\ h.id \notin DOMAIN destructionTimers'[c]
              /\ page'[c] = "chat"
              /\ sessionData'[c] = sessionData[c]
              /\ msgView'[c] = msgView[c]]_vars

\* both clients were shown message 3 as seen and neither holds a timer for
\* it any more, no delete was rejected, and the message is gone: one of the
\* two deletes found it deleted
C19_Witness ==
    /\ 3 \notin MessageIds
    /\ budget.rejects = 0
    /\ \A c \in Attached :
          /\ page[c] = "chat"
          /\ ~fresh[c]
          /\ timeouts[c] = EmptyBag
          /\ \E i \in 1..Len(msgView[c]) :
                msgView[c][i].id = 3 /\ msgView[c][i].seenAt # Null

(* ------------------------ the join, to its end ------------------------ *)
\* C20: a handleJoin invocation that has ended has joined (or found its id
\* already listed) or has failed with "This room is full." or "Session
\* disappeared.": the transaction is retried until one of these is reached
C20_JoinEndsJoinedOrTerminal ==
    \A c \in Clients, r \in Runs :
        jt[c][r].pc = "done" =>
            jt[c][r].outcome \in {"joined", "already", "full", "disappeared"}

(* ----------------------- admission, the edges ------------------------ *)
\* C21: while the session document does not exist, fetchSession ends with the
\* error "Session not found or has expired." and handleJoin with "Session
\* disappeared."; neither creates the document, a participants entry or a
\* message, and the client is not taken to the chat
C21_JoinOfMissingSession ==
    [][\A c \in Clients, r \in Runs :
          (~session.exists /\ (FetchSession(c, r) \/ JoinBody(c, r) \/ JoinCommit(c, r)))
              => /\ session' = NoDoc
                 /\ messages' = messages
                 /\ nextId' = nextId
                 /\ form'[c].error \in {"Session not found or has expired.",
                                        "Session disappeared."}
                 /\ ~InFlight(jt'[c][r])
                 /\ page'[c] = page[c]]_vars

\* c3 has opened the join page of an id no session was created for, both
\* runs of fetchSession have ended, and nothing exists for the id
C21_Witness ==
    /\ ~session.exists
    /\ messages = <<>>
    /\ page["c3"] = "join"
    /\ \A r \in Runs : fetch["c3"][r] = "done" /\ jt["c3"][r].pc = "idle"
    /\ form["c3"].error = "Session not found or has expired."

(* ------------------- an id that is drawn again ------------------------ *)
\* The full room of InitChat at the moment another visitor's create form has
\* drawn the same five-digit id (Math.random, 90000 values): the creations
\* counted are those of the run that starts here
InitTaken ==
    /\ now = 1
    /\ session = [exists |-> TRUE, selfDestructSeconds |-> 5,
                  kickOnWrongAnswer |-> TRUE, questions |-> <<"0", "1">>,
                  createdAt |-> 1, participants |-> <<"c1", "c2">>,
                  participantCount |-> 2,
                  presence |-> [c \in {"c1", "c2"} |->
                                  [status |-> "online", last_active |-> 1]]]
    /\ messages = <<SystemMessage(1, JoinedText, "c1", 1),
                    SystemMessage(2, JoinedText, "c2", 1)>>
    /\ nextId = 3
    /\ page = [c \in Clients |-> IF c = "c3" THEN "home" ELSE "chat"]
    /\ hasId = [c \in Clients |-> c # "c3"]
    /\ viewOnce = NotMounted
    /\ fetch = [c \in Clients |-> [r \in Runs |-> IF c = "c3" THEN "idle" ELSE "done"]]
    /\ form = [c \in Clients |->
                 IF c = "c3" THEN FormInit
                 ELSE [FormInit EXCEPT !.loaded = TRUE, !.questions = <<"0", "1">>,
                                       !.kickOnWrongAnswer = TRUE]]
    /\ jt = [c \in Clients |-> [r \in Runs |->
                 IF r = "first" \/ c = "c3" THEN JoinIdle
                 ELSE IF c = "c1" THEN JoinedTask(<<"c1">>)
                 ELSE JoinedTask(<<"c1", "c2">>)]]
    /\ lt = [c \in Clients |-> LeaveIdle]
    /\ sessionData = [c \in Clients |-> NoDoc]
    /\ presQ = [c \in Clients |-> <<>>]
    /\ st = [c \in Clients |-> [k \in SendSlots |-> SendIdle]]
    /\ msgView = [c \in Clients |-> <<>>]
    /\ fresh = [c \in Clients |-> FALSE]
    /\ destructionTimers = [c \in Clients |-> <<>>]
    /\ timeouts = [c \in Clients |-> EmptyBag]
    /\ budget = [creates |-> 0, visits |-> 1, navs |-> 0, sends |-> 0, leaves |-> 0,
                 notices |-> 2, rejects |-> 0]

\* a create form is submitted by a client on the home page, the clients of
\* the room receive the session document and write their presence, and the
\* creator is taken through the join page
NextCreate ==
    \/ \E c \in Clients, data \in FormValues : CreateSession(c, data)
    \/ \E c \in Clients : SessionSnapshot(c)
    \/ \E c \in Clients : PresenceWrite(c)
    \/ \E c \in Clients, r \in Runs : FetchSession(c, r)
    \/ \E c \in Clients : \E ans \in [1..Len(form[c].questions) -> Options] :
           SubmitAnswers(c, ans)
    \/ \E c \in Clients : DismissKickDialog(c)
    \/ \E c \in Clients, r \in Runs : JoinBody(c, r)
    \/ \E c \in Clients, r \in Runs : JoinCommit(c, r)

SpecCreate == InitTaken /\ [][NextCreate]_vars

\* C22: a creation under an id whose session document exists leaves that
\* document as it is
C22_CreateKeepsExisting ==
    [][\A c \in Clients, data \in FormValues :
          (session.exists /\ CreateSession(c, data)) => session' = session]_vars

(* ------------------------------ presence ------------------------------ *)
\* the stored status of c is offline
StoredOffline(d, c) ==
    /\ c \in DOMAIN PresenceOf(d)
    /\ PresenceOf(d)[c].status = "offline"

HasDeadline(sd, m) == HasSeenDeadline(sd, m) \/ HasUnseenDeadline(sd, m)

\* c holds a pending timeout for message id
Pending(bag, id) == \E h \in BagToSet(bag) : h.id = id

\* the step is a delivery of the log to c (the view of c becomes the log)
Delivery(c) ==
    /\ msgView'[c] = messages
    /\ now' = now /\ st' = st /\ page' = page
    /\ MessageSnapshot(c)

\* C24: a delivery that contains a message whose deadline is past issues its
\* delete in the same step (the message leaves the log unless the store
\* rejects the delete) and leaves the client without a timer for it, also
\* when the client held one
C24_PastDeadlineDeletedAtOnce ==
    [][\A c \in Clients :
          Delivery(c)
          => \A i \in 1..Len(messages) :
                LET m == messages[i]
                IN (HasDeadline(sessionData[c], m)
                      /\ DestructionTime(sessionData[c], m) <= now)
                   => /\ m.id \notin DOMAIN destructionTimers'[c]
                      /\ ~Pending(timeouts'[c], m.id)
                      /\ \/ m.id \notin {messages'[j].id : j \in 1..Len(messages')}
                         \/ budget'.rejects > budget.rejects]_vars

\* the last snapshot of c held a seen message next to one created at or
\* after its deadline, so it was delivered with the deadline past; no delete
\* was rejected, the message is gone and c holds no timer for it
C24_Witness ==
    \E c \in Clients : \E i, j \in 1..Len(msgView[c]) :
        /\ msgView[c][i].seenAt # Null
        /\ msgView[c][j].createdAt >= DestructionTime(sessionData[c], msgView[c][i])
        /\ msgView[c][i].id \notin MessageIds
        /\ msgView[c][i].id \notin DOMAIN destructionTimers[c]
        /\ budget.rejects = 0

\* C25: a delivery leaves the timer a client already holds for a message
\* with a future deadline as it is: the timer stays, due when it was due
C25_ExistingTimerUntouched ==
    [][\A c \in Clients :
          Delivery(c)
          => \A i \in 1..Len(messages) :
                LET m == messages[i]
                IN (/\ m.id \in DOMAIN destructionTimers[c]
                    /\ HasDeadline(sessionData[c], m)
                    /\ DestructionTime(sessionData[c], m) > now)
                   => /\ m.id \in DOMAIN destructionTimers'[c]
                      /\ destructionTimers'[c][m.id] = destructionTimers[c][m.id]]_vars

\* C26: after a delivery to c the timer table and the pending timeouts of c
\* name only messages of the delivered snapshot, and at no time does c hold a
\* timer for a message that its last snapshot did not contain: the timer of a
\* message found deleted is cancelled with the delivery and cannot fire
C26_NoTimerForAbsentMessage ==
    [][\A c \in Clients :
          /\ Delivery(c) =>
                /\ DOMAIN destructionTimers'[c] \subseteq MessageIds
                /\ \A h \in BagToSet(timeouts'[c]) : h.id \in MessageIds
          /\ \A h \in BagToSet(timeouts'[c]) :
                h.id \in {msgView'[c][i].id : i \in 1..Len(msgView'[c])}]_vars

\* c1 holds the timer of message 3, which another client has deleted since
\* the last snapshot of c1, and the snapshot without it is due
C26_Witness ==
    /\ 3 \in DOMAIN destructionTimers["c1"]
    /\ Pending(timeouts["c1"], 3)
    /\ 3 \notin MessageIds
    /\ page["c1"] = "chat"
    /\ msgView["c1"] # messages
    /\ now < destructionTimers["c1"][3]

(* --------------------- a session with two thresholds ------------------ *)
\* selfDestructSeconds and selfDestructUnseenSeconds of a session document
\* that has both (SessionData): the seen delay longer than, shorter than and
\* absent next to the unseen delay
DualPolicies == {<<5, 4>>, <<2, 4>>, <<0, 4>>}

\* The full room under such a policy: both clients have received the session
\* document and the two join notices, and c1 has sent message 3, which
\* nobody has marked seen; c2 sends one message in the run
InitDual ==
    /\ now = 1
    /\ \E p \in DualPolicies :
         session = [exists |-> TRUE, selfDestructSeconds |-> p[1],
                  selfDestructUnseenSeconds |-> p[2],
                  kickOnWrongAnswer |-> TRUE, questions |-> <<"0", "1">>,
                  createdAt |-> 1, participants |-> <<"c1", "c2">>,
                  participantCount |-> 2,
                  presence |-> [c \in Attached |->
                                  [status |-> "online", last_active |-> 1]]]
    /\ messages = <<SystemMessage(1, JoinedText, "c1", 1),
                    SystemMessage(2, JoinedText, "c2", 1),
                    UserMessage(3, "c1", "text", 1)>>
    /\ nextId = 4
    /\ page = [c \in Clients |-> IF c \in Attached THEN "chat" ELSE "home"]
    /\ hasId = [c \in Clients |-> c \in Attached]
    /\ viewOnce = NotMounted
    /\ fetch = [c \in Clients |-> [r \in Runs |->
                   IF c \in Attached THEN "done" ELSE "idle"]]
    /\ form = [c \in Clients |->
                 IF c \notin Attached THEN FormInit
                 ELSE [FormInit EXCEPT !.loaded = TRUE, !.questions = <<"0", "1">>,
                                       !.kickOnWrongAnswer = TRUE]]
    /\ jt = [c \in Clients |-> [r \in Runs |->
                 IF r = "first" \/ c \notin Attached THEN JoinIdle
                 ELSE IF c = "c1" THEN JoinedTask(<<"c1">>)
                 ELSE JoinedTask(<<"c1", "c2">>)]]
    /\ lt = [c \in Clients |-> LeaveIdle]
    /\ sessionData = [c \in Clients |-> IF c \in Attached THEN session ELSE NoDoc]
    /\ presQ = [c \in Clients |-> <<>>]
    /\ st = [c \in Clients |-> [k \in SendSlots |-> SendIdle]]
    /\ msgView = [c \in Clients |->
                    IF c \in Attached
                    THEN <<SystemMessage(1, JoinedText, "c1", 1),
                           SystemMessage(2, JoinedText, "c2", 1)>>
                    ELSE <<>>]
    /\ fresh = [c \in Clients |-> FALSE]
    /\ destructionTimers = [c \in Clients |-> <<>>]
    /\ timeouts = [c \in Clients |-> EmptyBag]
    /\ budget = [creates |-> 1, visits |-> 1, navs |-> 0, sends |-> 2, leaves |-> 0,
                 notices |-> 2, rejects |-> 0]

\* deliveries, the reply of c2 (which marks message 3 seen), timers and the
\* clock
NextDual ==
    \/ \E c \in Attached : MessageSnapshot(c)
    \/ \E k \in SendSlots : SendStart("c2", k, "text")
    \/ \E k \in SendSlots : SendQuery("c2", k)
    \/ \E k \in SendSlots : SendCommit("c2", k)
    \/ \E c \in Attached : \E h \in AllTimeouts : TimerFire(c, h)
    \/ Elapse

SpecDual == InitDual /\ [][NextDual]_vars

\* c holds for message m the timer of the unseen path
HoldsUnseenTimer(c, m) ==
    /\ m.id \in DOMAIN destructionTimers[c]
    /\ m.createdAt # Null
    /\ destructionTimers[c][m.id] =
           m.createdAt + sessionData[c].selfDestructUnseenSeconds
    /\ \E i \in 1..Len(msgView[c]) :
          msgView[c][i].id = m.id /\ msgView[c][i].seenAt = Null

RejectedOf(c) ==
    IF budget'.rejects = budget.rejects THEN {}
    ELSE {h.id : h \in {g \in AllTimeouts : TimerFire(c, g)}}
         \cup (IF Delivery(c)
               THEN Issued(c, messages) \cap {messages'[j].id : j \in 1..Len(messages')}
               ELSE {})

\* C28: a rejected delete leaves c attached with its session, the message
\* where it was and no timer armed for it (c does not retry by itself) while a
\* notification is due to c, and the delivery that follows a rejection issues
\* a delete for every message of the snapshot whose deadline is past
C28_FailedDeleteIsRetriedOnSnapshot ==
    [][\A c \in Clients :
          /\ \A id \in RejectedOf(c) :
                /\ page'[c] = "chat"
                /\ sessionData'[c] = sessionData[c]
                /\ fresh'[c]
                /\ id \in MessageIds => id \in {messages'[j].id : j \in 1..Len(messages')}
                /\ id \notin DOMAIN destructionTimers'[c]
                /\ ~Pending(timeouts'[c], id)
          /\ (Delivery(c) /\ fresh[c] /\ msgView[c] # <<>>) =>
                \A i \in 1..Len(messages) :
                   LET m == messages[i]
                   IN (HasDeadline(sessionData[c], m)
                         /\ DestructionTime(sessionData[c], m) <= now)
                      => /\ m.id \in Issued(c, messages)
                         /\ \/ m.id \notin {messages'[j].id : j \in 1..Len(messages')}
                            \/ budget'.rejects > budget.rejects]_vars

\* a delete of c was rejected and the notification that follows is due: c is
\* attached, message 3 is in the log past its deadline, and c holds no timer
\* for it
C28_Witness ==
    \E c \in Attached :
        /\ page[c] = "chat"
        /\ fresh[c]
        /\ msgView[c] # <<>>
        /\ budget.rejects = 1
        /\ ~Pending(timeouts[c], 3)
        /\ \E i \in 1..Len(messages) :
              /\ messages[i].id = 3
              /\ HasDeadline(sessionData[c], messages[i])
              /\ DestructionTime(sessionData[c], messages[i]) <= now

\* the presence slots of d and the fields other than presence
SlotOf(doc, d) ==
    IF d \in DOMAIN PresenceOf(doc) THEN <<PresenceOf(doc)[d]>> ELSE <<>>

OtherFields(doc) == [k \in (DOMAIN doc) \ {"presence"} |-> doc[k]]

\* C29: a presence write of c changes nothing of the session document but
\* the slot of c, and the commit of a join or leave transaction of c leaves
\* the slot of every other client as the store holds it, so that a presence
\* write that landed while the transaction ran is not undone
C29_PresenceWriteOwnSlotOnly ==
    [][\A c \in Clients :
          /\ PresenceWrite(c) =>
                /\ OtherFields(session') = OtherFields(session)
                /\ \A d \in (Clients \cup {EmptyId}) \ {c} :
                      SlotOf(session', d) = SlotOf(session, d)
          /\ (LeaveCommit(c) \/ \E r \in Runs : JoinCommit(c, r)) =>
                \A d \in Clients \ {c} :
                   SlotOf(session', d) = SlotOf(session, d)]_vars

\* both participants have a presence slot, and the join of c2 was retried
\* after a write to the session document landed between its read and its
\* commit
C29_Witness ==
    /\ ParticipantsOf(session) = <<"c1", "c2">>
    /\ DOMAIN PresenceOf(session) = {"c1", "c2"}
    /\ jt["c2"]["second"].outcome = "joined"
    /\ jt["c2"]["second"].attempts = 1

(* ------------- chat-interface.tsx, the view-once ChatInterface ---------- *)
\* the values of selfDestructSeconds that localStorage may hold for the session
LocalSettings == {1, 2}

\* what the view-once ChatInterface leaves alone: the store and the routes of
\* the shared room
shared == <<now, session, messages, nextId, page, hasId, fetch, form, jt, lt,
            sessionData, presQ, st, sched>>

\* a message of the local list: id is Date.now() at the time of the call
LocalMessage(id, sender, type) == [id |-> id, sender |-> sender, type |-> type]

\* the mount effect: settings come from localStorage; without the entry the
\* component pushes the home route
MountViewOnce(data) ==
    /\ ~viewOnce.mounted
    /\ viewOnce' = IF data = Null
                   THEN NotMounted
                   ELSE [mounted |-> TRUE,
                         settings |-> [selfDestructSeconds |-> data],
                         messages |-> <<>>,
                         imageToView |-> Null,
                         timeouts |-> EmptyBag]
    /\ UNCHANGED <<shared, budget>>

\* setupDestructionTimer(messageId): setTimeout(filter, selfDestructSeconds)
setupDestructionTimer(v, messageId, t) ==
    [v EXCEPT !.timeouts =
        @ (+) SetToBag({Timeout(messageId, t + v.settings.selfDestructSeconds)})]

\* setMessages(prev => [...prev, msg])
AddLocal(v, msg) == [v EXCEPT !.messages = Append(@, msg)]

\* setMessages(prev => prev.filter(m => m.id !== messageId))
FilterLocal(v, messageId) ==
    [v EXCEPT !.messages = SelectSeq(@, LAMBDA m : m.id # messageId)]

\* the interval callback: a message of the other side, with its timer
BotMessage ==
    /\ viewOnce.mounted
    /\ budget.sends < MaxSends
    /\ Spend("sends")
    /\ viewOnce' = setupDestructionTimer(
                       AddLocal(viewOnce, LocalMessage(now, "Other", "text")),
                       now, now)
    /\ UNCHANGED shared

\* handleSendMessage: a text message with its timer
HandleSendMessage ==
    /\ viewOnce.mounted
    /\ budget.sends < MaxSends
    /\ Spend("sends")
    /\ viewOnce' = setupDestructionTimer(
                       AddLocal(viewOnce, LocalMessage(now, "You", "text")),
                       now, now)
    /\ UNCHANGED shared

\* handleSendImage: an image message, no call of setupDestructionTimer
HandleSendImage ==
    /\ viewOnce.mounted
    /\ budget.sends < MaxSends
    /\ Spend("sends")
    /\ viewOnce' = AddLocal(viewOnce, LocalMessage(now, "You", "image"))
    /\ UNCHANGED shared

\* handleViewImage(msg), from the button rendered for an image message
HandleViewImage(i) ==
    /\ viewOnce.mounted
    /\ i \in 1..Len(viewOnce.messages)
    /\ viewOnce.messages[i].type = "image"
    /\ viewOnce.imageToView = Null
    /\ viewOnce' = [viewOnce EXCEPT !.imageToView = viewOnce.messages[i].id]
    /\ UNCHANGED <<shared, budget>>

\* handleCloseImageView, from the open dialog
HandleCloseImageView ==
    /\ viewOnce.mounted
    /\ viewOnce.imageToView # Null
    /\ viewOnce' = [FilterLocal(viewOnce, viewOnce.imageToView)
                       EXCEPT !.imageToView = Null]
    /\ UNCHANGED <<shared, budget>>

\* a timeout of setupDestructionTimer runs
ViewOnceTimerFire(h) ==
    /\ viewOnce.mounted
    /\ BagIn(h, viewOnce.timeouts)
    /\ now >= h.due
    /\ viewOnce' = [FilterLocal(viewOnce, h.id)
                       EXCEPT !.timeouts = @ (-) SetToBag({h})]
    /\ UNCHANGED <<shared, budget>>

LocalTimeouts == IF viewOnce.mounted THEN BagToSet(viewOnce.timeouts) ELSE {}

NextViewOnce ==
    \/ \E data \in LocalSettings \cup {Null} : MountViewOnce(data)
    \/ BotMessage
    \/ HandleSendMessage
    \/ HandleSendImage
    \/ \E i \in 1..MaxSends : HandleViewImage(i)
    \/ HandleCloseImageView
    \/ \E h \in LocalTimeouts : ViewOnceTimerFire(h)
    \/ Elapse

SpecViewOnce == Init /\ [][NextViewOnce]_vars

\* C30: in the view-once ChatInterface sending an image sets no timeout, an
\* image of the list is still in the list after every step but the closing
\* of the viewer that shows it, and that step removes it
C30_ImageLeavesOnlyOnClose ==
    [][(viewOnce.mounted /\ viewOnce'.mounted) =>
          /\ HandleSendImage => viewOnce'.timeouts = viewOnce.timeouts
          /\ \A m \in Range(viewOnce.messages) :
                m.type = "image" =>
                   (m \notin Range(viewOnce'.messages)
                       <=> (HandleCloseImageView /\ viewOnce.imageToView = m.id))]_vars

(* ------------------- admission and the message log --------------------- *)
\* C31: after every step a client that stands on the chat page is listed in
\* participants, and a send that appends a message is the send of a client
\* that participants lists
C31_OnlyParticipantsAct ==
    [][/\ \A c \in Clients :
             page'[c] = "chat" => Includes(ParticipantsOf(session'), c)
       /\ \A c \in Clients, k \in SendSlots :
             (SendCommit(c, k) /\ messages' # messages)
                => Includes(ParticipantsOf(session), c)]_vars


\* C32: a join transaction that changes participants appends the id of the
\* joining client, which is not the empty string, and nothing else
C32_JoinAppendsOwnId ==
    [][\A c \in Clients, r \in Runs :
          (JoinCommit(c, r) /\ ParticipantsOf(session') # ParticipantsOf(session))
             => /\ c # EmptyId
                /\ ParticipantsOf(session') = Append(ParticipantsOf(session), c)]_vars


\* C33: a handleJoin invocation whose transaction body has thrown (room full
\* or session gone), on its first run or on a retry, has inserted no join
\* message
C33_RejectedJoinWritesNoMessage ==
    \A c \in Clients, r \in Runs :
       jt[c][r].outcome \in {"full", "disappeared"} => jt[c][r].msgs = 0


\* C34: once the leave of c has committed and c has left the chat page, the
\* offline write of its presence cleanup leaves the presence map without a
\* slot for c
C34_NoSlotAfterLeave ==
    [][\A c \in Clients :
          (/\ PresenceWrite(c)
           /\ Head(presQ[c]) = "offline"
           /\ lt[c].outcome = "left"
           /\ page[c] # "chat"
           /\ c \notin DOMAIN PresenceOf(session))
             => c \notin DOMAIN PresenceOf(session')]_vars


\* C35: an id the store has issued and the log no longer holds is not in
\* the log after any step: a deleted message does not come back, also when
\* a batch that marks it seen commits after the delete
C35_DestroyedIsFinal ==
    [][\A id \in 1..(nextId - 1) :
          id \notin MessageIds => id \notin {messages'[j].id : j \in 1..Len(messages')}]_vars

\* the send of c2 queried message 3 as unread, message 3 was deleted, and the
\* batch has been committed: it failed, nothing was written
C35_Witness ==
    /\ budget.sends = MaxSends
    /\ \A k \in SendSlots : st["c2"][k].pc = "idle"
    /\ 3 \notin MessageIds
    /\ nextId = 4


\* C36: the commit of a send appends the sender's new message to the log,
\* whatever has happened to the messages its unread query returned
C36_SendAlwaysAppends ==
    [][\A c \in Clients, k \in SendSlots :
          SendCommit(c, k) =>
             /\ Len(messages') = Len(messages) + 1
             /\ messages'[Len(messages')].senderId = c
             /\ messages'[Len(messages')].id = nextId]_vars

====
